---- MODULE Spec2Model ----
(***************************************************************************)
(* Model of src/analysis.py (GitHubAnalyzer): the cursor-paged commit      *)
(* history traversal of fetch_repo_committers with its rate-limit guard    *)
(* and author normalisation, the page traversals of fetch_org_repos and    *)
(* get_ghas_data, the scans of process_organizations and                   *)
(* process_repositories, and the reconciliation of                         *)
(* analyze_committer_coverage.                                             *)
(***************************************************************************)
EXTENDS Integers, Sequences, FiniteSets, TLC

(* ---------------------------- bounds ---------------------------------- *)
MaxTime == 3        \* requests take time up to this instant
MaxLatency == 1     \* a request takes at most this long
MaxAhead == 1       \* a reset header lies at most this far after the response
MaxPages == 2       \* history pages the server holds for one repository
MaxNodes == 2       \* commits per history page
MaxCalls == 2       \* calls of fetch_repo_committers per run
MaxRepos == 2       \* repositories in repo_data
MaxBilling == 2     \* repository records in the billing data
FallBackAt == 2     \* instant at which the local zone sets its clocks back
FallBack == 2       \* by this much
MaxOrgs == 2        \* rows of an organizations file
MaxOrgPages == 2    \* listing pages of an organization that are not empty
MaxBatch == 2       \* repositories per listing page
MaxRows == 2        \* rows of a repositories file
MaxGhasPages == 2   \* billing pages of an enterprise
MaxPageRepos == 1   \* repository records per billing page

(* ------------------------ program constants --------------------------- *)
DefaultRateLimit == 5000
SleepBuffer == 1
HttpOk == 200
HttpError == 500

(* Python's None, and truthiness of an optional string *)
None == "<None>"
Truthy(s) == s # None /\ s # ""
\* Python's `a or b`
Or(a, b) == IF Truthy(a) THEN a ELSE b

(* ---------------------- commit authors (inputs) ----------------------- *)
Logins == {"", "alice"}
Names == {"", "Al"}      \* a null name reads like an empty one (line 275)
Emails == {None, "", "a@x.com"}
\* user = TRUE: the author has a linked account object {login: ...}
AllAuthors ==
  [user : {TRUE}, login : Logins, name : Names, email : Emails]
    \cup [user : {FALSE}, login : {None}, name : Names, email : Emails]

(* lines 273-276: the username and the e-mail read from a commit author *)
AuthorUsername(a) == IF a.user THEN a.login ELSE a.name
AuthorEmail(a) == a.email
\* the e-mail preferred over the username
ResolveKey_EmailFirst(a) == Or(AuthorEmail(a), AuthorUsername(a))
(* line 279: key = username or email *)
ResolveKey(a) == Or(AuthorUsername(a), AuthorEmail(a))
(* line 281: the record stored for the author *)
CommitterRecord(a) == [username |-> Or(AuthorUsername(a), ""), email |-> AuthorEmail(a)]

(* A Python dict as a sequence of <<key, value>> entries in insertion order *)
DictKeys(d) == {d[i][1] : i \in 1..Len(d)}
DictHas(d, k) == \E i \in 1..Len(d) : d[i][1] = k
DictGet(d, k) == d[CHOOSE i \in 1..Len(d) : d[i][1] = k][2]
\* a key that is there keeps its value
DictPut_KeepFirst(d, k, v) == IF DictHas(d, k) THEN d ELSE Append(d, <<k, v>>)
DictPut(d, k, v) ==
  IF DictHas(d, k)
  THEN [i \in 1..Len(d) |-> IF d[i][1] = k THEN <<k, v>> ELSE d[i]]
  ELSE Append(d, <<k, v>>)
DictValues(d) == [i \in 1..Len(d) |-> d[i][2]]

(* lines 272-281: one iteration of the loop over the nodes of a page *)
AddCommit(cs, a) ==
  IF Truthy(ResolveKey(a)) THEN DictPut(cs, ResolveKey(a), CommitterRecord(a)) ELSE cs

(* ------------------- fetch_repo_committers: state -------------------- *)
VARIABLES
  pc,                    \* position in fetch_repo_committers
  calls,                 \* calls of fetch_repo_committers started so far
  now,                   \* wall clock (epoch seconds)
  committers,            \* line 153: dict key -> record
  cursor,                \* line 154: <<>> is None, <<n>> an opaque cursor
  has_next_page,         \* line 155
  remaining_rate_limit,  \* line 182
  rate_limit_reset,      \* line 183: <<>> is None, <<t>> a naive local time
  response,              \* the response last received (lines 197, 218)
  nodesLeft,             \* commits of the current page not yet visited
  commit,                \* lines 272-273: the author of the commit last visited
  requests,              \* cursors of the requests sent in this traversal
  outcome,               \* "none", "returned" or "raised"
  result,                \* the list returned
  reset_instant,         \* history: the instant rate_limit_reset stands for
  slept,                 \* history: the guard has slept since the last response
  last_report            \* history, until the first request of a call is sent: <<>>,
                         \* or <<t>> with t the reset instant of a used-up limit
                         \* that the last response of the call before reported

fetchVars == <<pc, calls, last_report, now, committers, cursor, has_next_page,
               remaining_rate_limit, rate_limit_reset, response, nodesLeft,
               commit, requests, outcome, result, reset_instant, slept>>

(* ----------------- analyze_committer_coverage: state ------------------ *)
VARIABLES
  ghas_data,             \* line 318: the 'repositories' list of the billing data
  repo_data,             \* line 318: the committer lists, one per repository
  hash_order,            \* the order in which this process's sets of str iterate
  coverage,              \* <<>>, or <<r>> with r the dict returned last
  previous               \* <<>>, or <<r>> with r the dict returned the call before

coverVars == <<ghas_data, repo_data, hash_order, coverage, previous>>

(* ------- fetch_org_repos, process_organizations, process_repositories ------ *)
VARIABLES
  scan_pc,               \* position in the scan and in fetch_org_repos
  rowsLeft,              \* rows of the CSV file not yet read (lines 121, 306)
  org,                   \* line 122
  page,                  \* line 86
  org_repos,             \* line 85: repos
  has_more,              \* line 88
  org_requests,          \* page numbers requested by this call of fetch_org_repos
  batches,               \* history: the batches this call of fetch_org_repos received
  list_outcome,          \* "none", "returned" or "raised": how fetch_org_repos ended
  repo_queue,            \* line 128: the repositories the for loop has yet to visit
  results,               \* lines 111, 296: dict repo_key -> committer list
  collected,             \* history: repo keys fetch_repo_committers was called for
  collect_outcome,       \* history: "none", or how the last repository visited fared
  repo_key               \* lines 135, 307

scanVars == <<scan_pc, rowsLeft, org, page, org_repos, has_more, org_requests, batches,
              list_outcome, repo_queue, results, collected, collect_outcome, repo_key>>

(* --------------------------- get_ghas_data: state ----------------------- *)
VARIABLES
  ghas_pc,               \* position in get_ghas_data
  enterprise,            \* self.enterprise
  ghas_page,             \* line 46
  all_repos,             \* line 45
  data,                  \* line 58: <<>>, or <<d>> with d the body parsed last
  ghas_requests,         \* page numbers requested by this call
  ghas_pages,            \* history: the bodies this call received
  link,                  \* the Link header of the response received last
  ghas_outcome,          \* "none", "returned", "value_error" or "raised"
  ghas_result            \* <<>>, or <<r>> with r the dict returned

ghasVars == <<ghas_pc, enterprise, ghas_page, all_repos, data, ghas_requests,
              ghas_pages, link, ghas_outcome, ghas_result>>

restVars == <<scanVars, ghasVars>>

vars == <<fetchVars, coverVars, restVars>>

(* ------------------------- clock conversions -------------------------- *)
(* datetime.fromtimestamp(t) and datetime.now(None): the naive local time  *)
(* of instant t, in a zone that sets its clocks back at FallBackAt         *)
LocalTime(t) == IF t >= FallBackAt THEN t - FallBack ELSE t
(* line 214: fromtimestamp(int(header)).isoformat(), parsed back at 189 *)
ResetFromHeader(h) == <<LocalTime(h)>>
(* lines 189-190: seconds from now to the stored reset time *)
WaitTime(reset, t) == reset[1] - LocalTime(t)

(* ----------------------------- the server ----------------------------- *)
RemH == "x-ratelimit-remaining"
ResetH == "x-ratelimit-reset"
NoHeaders == [k \in {} |-> 0]
RemainingValues == {0, 1}
(* The rate limit headers a response sent at t may carry: each of the two  *)
(* is there or not; env.rems are the remaining counts and env.ahead bounds *)
(* how far after t the reset lies                                          *)
RateHeaders(t, env) ==
  {NoHeaders}
    \cup {RemH :> r : r \in env.rems}
    \cup {ResetH :> x : x \in t..(t + env.ahead)}
    \cup {RemH :> r @@ ResetH :> x : r \in env.rems, x \in t..(t + env.ahead)}
(* a server that sends every combination, after some latency *)
RateEnv == [rems |-> RemainingValues, ahead |-> MaxAhead, latency |-> MaxLatency]
(* a server that sends no rate limit headers and answers at once *)
QuietEnv == [rems |-> {}, ahead |-> 0 - 1, latency |-> 0]

(* The page a cursor stands for: None is page 1, <<n>> is page n + 1 *)
PageOf(c) == IF c = <<>> THEN 1 ELSE c[1] + 1

(* Shapes of the body on the path data.repository.defaultBranchRef.target  *)
(* .history: the first element that is missing, null or empty, or          *)
(* "history" when a history object with content is there                   *)
NullShapes == {"data_null", "repository_null", "defaultBranchRef_null", "target_null"}
MissingShapes == {"data_missing", "repository_missing", "defaultBranchRef_missing",
                  "target_missing", "history_missing", "history_null", "history_empty"}
HistoryShape == "history"

EmptyBody == [errors |-> FALSE, shape |-> "data_missing", hasNextPage |-> "missing",
              endCursor |-> <<>>, nodes |-> 0]

(* The first request's response: a success, a failure status or an errors  *)
(* payload; only its headers are ever read (the variable is overwritten at *)
(* line 218 before status or body are looked at)                           *)
FirstResponses(H) ==
  {[kind |-> "first", headers |-> h, status |-> st, body |-> EmptyBody] :
     h \in H, st \in {HttpOk, HttpError}}
    \cup {[kind |-> "first", headers |-> h, status |-> HttpOk,
            body |-> [EmptyBody EXCEPT !.errors = TRUE]] : h \in H}

Bodies(c) ==
  {[EmptyBody EXCEPT !.errors = TRUE]}
    \cup {[EmptyBody EXCEPT !.shape = s] : s \in NullShapes \cup MissingShapes}
    \cup {[errors |-> FALSE, shape |-> HistoryShape, hasNextPage |-> hn,
           endCursor |-> <<PageOf(c)>>, nodes |-> n] :
            hn \in (IF PageOf(c) < MaxPages THEN {"true"} ELSE {}) \cup {"false", "missing"},
            n \in 0..MaxNodes}

SecondResponses(H, c) ==
  {[kind |-> "second", headers |-> h, status |-> HttpError, body |-> EmptyBody] : h \in H}
    \cup {[kind |-> "second", headers |-> h, status |-> HttpOk, body |-> b] :
            h \in H, b \in Bodies(c)}

NoResponse == [kind |-> "none", headers |-> NoHeaders, status |-> HttpOk, body |-> EmptyBody]

(* ------------------ analyze_committer_coverage (318-357) -------------- *)
(* lines 325-327: the key of a committer record *)
CommitterKey(c) == Or(c.username, c.email)

(* lines 324-329: one repository's committers merged into the dict *)
RECURSIVE MergeCommitters(_, _)
MergeCommitters(all, cs) ==
  IF cs = <<>> THEN all
  ELSE MergeCommitters(
         IF Truthy(CommitterKey(Head(cs))) THEN DictPut(all, CommitterKey(Head(cs)), Head(cs))
         ELSE all,
         Tail(cs))

(* lines 321-329: all_repo_committers *)
RECURSIVE AllRepoCommitters(_, _)
AllRepoCommitters(all, repos) ==
  IF repos = <<>> THEN all
  ELSE AllRepoCommitters(MergeCommitters(all, Head(repos)), Tail(repos))

(* line 340 *)
HasUserLogin(c) == Truthy(c.user_login)
\* a billing repository with no committers counts as well
HasCommitters_AnyCount(repo) == repo.advanced_security_committers >= 0
(* line 336 *)
HasCommitters(repo) == repo.advanced_security_committers > 0

(* lines 337-345: the objects appended for one billing repository *)
BreakdownObjects(repo) ==
  LET kept == SelectSeq(repo.advanced_security_committers_breakdown, HasUserLogin)
  IN [i \in 1..Len(kept) |-> [username |-> kept[i].user_login, email |-> kept[i].email]]

(* lines 333-345: ghas_committer_objects *)
RECURSIVE GhasCommitterObjects(_)
GhasCommitterObjects(repos) ==
  IF repos = <<>> THEN <<>>
  ELSE (IF HasCommitters(Head(repos)) THEN BreakdownObjects(Head(repos)) ELSE <<>>)
         \o GhasCommitterObjects(Tail(repos))

(* lines 337-341: the logins added for one billing repository *)
BreakdownLogins(repo) ==
  LET b == repo.advanced_security_committers_breakdown
  IN {b[j].user_login : j \in {k \in 1..Len(b) : HasUserLogin(b[k])}}

\* the committer count of a billing repository not looked at
GhasCommitterUsernames_AnyCount(repos) ==
  UNION {BreakdownLogins(repos[i]) : i \in 1..Len(repos)}
(* lines 332-341: ghas_committer_usernames *)
GhasCommitterUsernames(repos) ==
  UNION {BreakdownLogins(repos[i]) : i \in {k \in 1..Len(repos) : HasCommitters(repos[k])}}

(* Iterating a set of str: the elements in the order this process's string *)
(* hashes put them                                                         *)
SetIteration(S, order) ==
  LET In(x) == x \in S IN SelectSeq(order, In)

(* lines 348-349 *)
NewCommitterKeys(all, usernames) == DictKeys(all) \ usernames
NewCommitterObjects(all, keys) == [i \in 1..Len(keys) |-> DictGet(all, keys[i])]

(* lines 318-357 *)
AnalyzeCommitterCoverage(ghas, repos, order) ==
  LET all_repo_committers == AllRepoCommitters(<<>>, repos)
      ghas_committer_usernames == GhasCommitterUsernames(ghas)
      ghas_committer_objects == GhasCommitterObjects(ghas)
      new_committer_keys == NewCommitterKeys(all_repo_committers, ghas_committer_usernames)
      new_committer_objects ==
        NewCommitterObjects(all_repo_committers, SetIteration(new_committer_keys, order))
  IN [total_repo_committers |-> Len(all_repo_committers),
      total_ghas_committers |-> Len(ghas_committer_objects),
      ghas_committers |-> ghas_committer_objects,
      new_committers |-> new_committer_objects,
      new_committer_count |-> Len(new_committer_objects)]

(* ------------------ fetch_repo_committers: actions ------------------- *)
\* the loop variable before any commit was visited: no author of AllAuthors
NoCommit == [user |-> FALSE, login |-> None, name |-> None, email |-> None]

InitFetch ==
  /\ pc = "idle"
  /\ calls = 0
  /\ now = 0
  /\ committers = <<>>
  /\ cursor = <<>>
  /\ has_next_page = TRUE
  /\ remaining_rate_limit = DefaultRateLimit
  /\ rate_limit_reset = <<>>
  /\ response = NoResponse
  /\ nodesLeft = 0
  /\ commit = NoCommit
  /\ requests = <<>>
  /\ outcome = "none"
  /\ result = <<>>
  /\ reset_instant = <<>>
  /\ slept = FALSE
  /\ last_report = <<>>

\* what the response received last says of a limit that is used up
UsedUpReport(r) ==
  IF RemH \in DOMAIN r.headers /\ ResetH \in DOMAIN r.headers /\ r.headers[RemH] < 1
  THEN <<r.headers[ResetH]>> ELSE <<>>

(* lines 150-183: a call starts with fresh locals *)
FetchStart ==
  /\ pc \in {"idle", "done"}
  /\ calls < MaxCalls
  /\ calls' = calls + 1
  /\ pc' = "loop"
  /\ committers' = <<>>
  /\ cursor' = <<>>
  /\ has_next_page' = TRUE
  /\ remaining_rate_limit' = DefaultRateLimit
  /\ rate_limit_reset' = <<>>
  /\ response' = NoResponse
  /\ nodesLeft' = 0
  /\ commit' = NoCommit
  /\ requests' = <<>>
  /\ outcome' = "none"
  /\ result' = <<>>
  /\ reset_instant' = <<>>
  /\ slept' = FALSE
  /\ last_report' = UsedUpReport(response)
  /\ UNCHANGED <<now, coverVars, restVars>>

(* line 188: the condition of the guard *)
GuardApplies == remaining_rate_limit < 1 /\ rate_limit_reset # <<>>

(* lines 185-194: the loop test, then the guard; time.sleep(wait_time + 1) *)
(* returns once that much time has passed                                  *)
SleepUntil(t, reset) ==
  IF WaitTime(reset, t) > 0 THEN t + WaitTime(reset, t) + SleepBuffer ELSE t

GuardCheck ==
  /\ pc = "loop"
  /\ has_next_page
  /\ now' = IF GuardApplies THEN SleepUntil(now, rate_limit_reset) ELSE now
  /\ pc' = "send1"
  /\ slept' = (slept \/ (GuardApplies /\ WaitTime(rate_limit_reset, now) > 0))
  /\ UNCHANGED <<calls, last_report, committers, cursor, has_next_page, remaining_rate_limit,
                 rate_limit_reset, response, nodesLeft, commit, requests, outcome, result,
                 reset_instant, coverVars, restVars>>

(* The instants at which the response to a request sent at t can arrive *)
Arrivals(t, lat) == {u \in t..(t + lat) : u = t \/ u <= MaxTime}

(* lines 196-205: the first POST and its response *)
SendFirst(env) ==
  /\ pc = "send1"
  /\ requests' = Append(requests, cursor)
  /\ \E u \in Arrivals(now, env.latency) :
       /\ now' = u
       /\ \E r \in FirstResponses(RateHeaders(u, env)) : response' = r
  /\ pc' = "headers"
  /\ slept' = FALSE
  /\ last_report' = <<>>
  /\ UNCHANGED <<calls, committers, cursor, has_next_page, remaining_rate_limit,
                 rate_limit_reset, nodesLeft, commit, outcome, result,
                 reset_instant, coverVars, restVars>>

\* a missing header read as a used-up limit
RemainingAfter_ZeroWhenMissing(old, h) == IF RemH \in DOMAIN h THEN h[RemH] ELSE 0
(* lines 207-215 *)
RemainingAfter(old, h) == IF RemH \in DOMAIN h THEN h[RemH] ELSE old
ResetAfter(old, h) == IF ResetH \in DOMAIN h THEN ResetFromHeader(h[ResetH]) ELSE old

ReadHeaders ==
  /\ pc = "headers"
  /\ remaining_rate_limit' = RemainingAfter(remaining_rate_limit, response.headers)
  /\ rate_limit_reset' = ResetAfter(rate_limit_reset, response.headers)
  /\ pc' = "send2"
  /\ reset_instant' = IF ResetH \in DOMAIN response.headers
                      THEN <<response.headers[ResetH]>> ELSE reset_instant
  /\ UNCHANGED <<calls, last_report, now, committers, cursor, has_next_page, response, nodesLeft,
                 commit, requests, outcome, result,
                 slept, coverVars, restVars>>

(* lines 217-226: the second POST, same cursor, and its response *)
SendSecond(env) ==
  /\ pc = "send2"
  /\ requests' = Append(requests, cursor)
  /\ \E u \in Arrivals(now, env.latency) :
       /\ now' = u
       /\ \E r \in SecondResponses(RateHeaders(u, env), cursor) : response' = r
  /\ pc' = "process"
  /\ slept' = FALSE
  /\ UNCHANGED <<calls, last_report, committers, cursor, has_next_page, remaining_rate_limit,
                 rate_limit_reset, nodesLeft, commit, outcome, result,
                 reset_instant, coverVars, restVars>>

(* lines 228-265: what the handling of a response comes to before the      *)
(* nodes are visited: "raise" (status, errors payload, or .get on None),   *)
(* "empty" (return [] at line 265) or "nodes"                              *)
Disposition(r) ==
  IF r.status # HttpOk THEN "raise"
  ELSE IF r.body.errors THEN "raise"
  ELSE IF r.body.shape \in NullShapes THEN "raise"
  ELSE IF r.body.shape \in MissingShapes THEN "empty"
  ELSE "nodes"

ProcessResponse ==
  /\ pc = "process"
  /\ LET d == Disposition(response) IN
       /\ pc' = IF d = "nodes" THEN "nodes" ELSE "done"
       /\ outcome' = IF d = "raise" THEN "raised" ELSE IF d = "empty" THEN "returned" ELSE outcome
       /\ nodesLeft' = IF d = "nodes" THEN response.body.nodes ELSE nodesLeft
  /\ result' = <<>>
  /\ UNCHANGED <<calls, last_report, now, committers, cursor, has_next_page, remaining_rate_limit,
                 rate_limit_reset, response, commit, requests,
                 reset_instant, slept, coverVars, restVars>>

(* lines 272-281: one commit of the page *)
ProcessCommit(authors) ==
  /\ pc = "nodes"
  /\ nodesLeft > 0
  /\ \E a \in authors :
       /\ commit' = a
       /\ committers' = AddCommit(committers, a)
  /\ nodesLeft' = nodesLeft - 1
  /\ UNCHANGED <<pc, calls, last_report, now, cursor, has_next_page, remaining_rate_limit,
                 rate_limit_reset, response, requests, outcome, result,
                 reset_instant, slept, coverVars, restVars>>

\* a page that does not say counts as having a next page
HasNextPageAfter_DefaultTrue(body) == body.hasNextPage # "false"
(* line 283: page_info.get("hasNextPage", False) *)
HasNextPageAfter(body) == body.hasNextPage = "true"

(* lines 283-284 *)
EndPage ==
  /\ pc = "nodes"
  /\ nodesLeft = 0
  /\ has_next_page' = HasNextPageAfter(response.body)
  /\ cursor' = response.body.endCursor
  /\ pc' = "loop"
  /\ UNCHANGED <<calls, last_report, now, committers, remaining_rate_limit, rate_limit_reset,
                 response, nodesLeft, commit, requests, outcome, result,
                 reset_instant, slept, coverVars, restVars>>

(* lines 291-292 *)
FetchReturn ==
  /\ pc = "loop"
  /\ ~has_next_page
  /\ result' = DictValues(committers)
  /\ outcome' = "returned"
  /\ pc' = "done"
  /\ UNCHANGED <<calls, last_report, now, committers, cursor, has_next_page, remaining_rate_limit,
                 rate_limit_reset, response, nodesLeft, commit, requests,
                 reset_instant, slept, coverVars, restVars>>

(* ------------- analyze_committer_coverage: specification -------------- *)
(* Committer lists as fetch_repo_committers returns them: records of       *)
(* distinct keys, a username or an e-mail non-empty                        *)
CommitterLists ==
  {<<>>,
   <<[username |-> "alice", email |-> "a@x.com"]>>,
   <<[username |-> "alice", email |-> ""]>>,
   <<[username |-> "", email |-> "a@x.com"]>>,
   <<[username |-> "alice", email |-> "a@x.com"], [username |-> "", email |-> "a@x.com"]>>,
   <<[username |-> "bob", email |-> ""], [username |-> "", email |-> "a@x.com"]>>}

(* Repository records of the billing data *)
BillingRecords ==
  {[advanced_security_committers |-> 1,
    advanced_security_committers_breakdown |-> <<[user_login |-> "alice", email |-> ""]>>],
   [advanced_security_committers |-> 0,
    advanced_security_committers_breakdown |-> <<[user_login |-> "alice", email |-> ""]>>],
   [advanced_security_committers |-> 2,
    advanced_security_committers_breakdown |->
      <<[user_login |-> "alice", email |-> ""], [user_login |-> "bob", email |-> ""]>>],
   [advanced_security_committers |-> 1,
    advanced_security_committers_breakdown |-> <<[user_login |-> "", email |-> "a@x.com"]>>],
   [advanced_security_committers |-> 0, advanced_security_committers_breakdown |-> <<>>]}

SeqsUpTo(S, n) == UNION {[1..k -> S] : k \in 0..n}

(* The keys that occur: the orders in which a set of them can iterate *)
KeyUniverse == {"alice", "bob", "a@x.com"}
HashOrders ==
  {o \in [1..Cardinality(KeyUniverse) -> KeyUniverse] :
     \A i, j \in DOMAIN o : i # j => o[i] # o[j]}

(* ======================= fetch_org_repos (83-107) ===================== *)
(* What a repository object of an organization listing can hold *)
RepoRecords ==
  {[name |-> "r1", archived |-> FALSE, fork |-> FALSE],
   [name |-> "r2", archived |-> FALSE, fork |-> FALSE],
   [name |-> "r3", archived |-> TRUE, fork |-> FALSE],
   [name |-> "r4", archived |-> FALSE, fork |-> TRUE]}
OrgNames == {"o1", "o2"}

(* The responses to the request for page p of a listing: a failure, or a   *)
(* batch; the organization has at most MaxOrgPages pages that are not      *)
(* empty. A repository object stands in the batch as <<p, i>>, its place   *)
(* in the listing; what it holds is drawn when the scan reads it           *)
RepoBatches(p) ==
  IF p <= MaxOrgPages THEN {[i \in 1..k |-> <<p, i>>] : k \in 0..MaxBatch} ELSE {<<>>}
OrgResponses(p) ==
  {[status |-> HttpError, batch |-> <<>>]}
    \cup {[status |-> HttpOk, batch |-> b] : b \in RepoBatches(p)}

NoScan ==
  /\ scan_pc = "idle"
  /\ rowsLeft = 0
  /\ org = None
  /\ page = 1
  /\ org_repos = <<>>
  /\ has_more = TRUE
  /\ org_requests = <<>>
  /\ batches = <<>>
  /\ list_outcome = "none"
  /\ repo_queue = <<>>
  /\ results = <<>>
  /\ collected = {}
  /\ collect_outcome = "none"
  /\ repo_key = None

\* the batch replaces what was gathered instead of being appended
ExtendRepos_Replace(rs, batch) == batch
(* line 101: repos.extend(repo_batch) *)
ExtendRepos(rs, batch) == rs \o batch

(* lines 109-119: process_organizations opens the CSV file *)
ProcessOrganizations ==
  /\ scan_pc = "idle"
  /\ \E n \in 0..MaxOrgs : rowsLeft' = n
  /\ results' = <<>>
  /\ scan_pc' = "org_rows"
  /\ UNCHANGED <<org, page, org_repos, has_more, org_requests, batches, list_outcome,
                 repo_queue, collected, collect_outcome, repo_key,
                 fetchVars, coverVars, ghasVars>>

(* lines 121-125 and 85-88: the next row, and the call of fetch_org_repos *)
NextOrg ==
  /\ scan_pc = "org_rows"
  /\ rowsLeft > 0
  /\ rowsLeft' = rowsLeft - 1
  /\ \E o \in OrgNames : org' = o
  /\ org_repos' = <<>>
  /\ page' = 1
  /\ has_more' = TRUE
  /\ org_requests' = <<>>
  /\ batches' = <<>>
  /\ list_outcome' = "none"
  /\ scan_pc' = "listing"
  /\ UNCHANGED <<repo_queue, results, collected, collect_outcome, repo_key,
                 fetchVars, coverVars, ghasVars>>

(* lines 90-105: one pass of the loop of fetch_org_repos; a failure is     *)
(* raised to process_organizations, whose handler at 145-146 goes on to    *)
(* the next row                                                            *)
FetchOrgPage ==
  /\ scan_pc = "listing"
  /\ has_more
  /\ org_requests' = Append(org_requests, page)
  /\ \E r \in OrgResponses(page) :
       IF r.status # HttpOk
       THEN /\ list_outcome' = "raised"
            /\ scan_pc' = "org_rows"
            /\ UNCHANGED <<page, org_repos, has_more, batches>>
       ELSE /\ batches' = Append(batches, r.batch)
            /\ has_more' = (r.batch # <<>>)
            /\ org_repos' = IF r.batch = <<>> THEN org_repos ELSE ExtendRepos(org_repos, r.batch)
            /\ page' = IF r.batch = <<>> THEN page ELSE page + 1
            /\ UNCHANGED <<list_outcome, scan_pc>>
  /\ UNCHANGED <<rowsLeft, org, repo_queue, results, collected, collect_outcome, repo_key,
                 fetchVars, coverVars, ghasVars>>

(* ==================== process_organizations (109-148) ================= *)
(* line 135: f"{org}/{repo_name}" *)
RepoKey(o, n) == o \o "/" \o n
\* forks are scanned
Skipped_ArchivedOnly(r) == r.archived
(* line 131: repositories the scan skips *)
Skipped(r) == r.archived \/ r.fork
(* How a call of fetch_repo_committers ends for the caller: it raises, or  *)
(* returns a committer list                                                *)
CollectOutcomes ==
  {[raised |-> TRUE, list |-> <<>>]}
    \cup {[raised |-> FALSE, list |-> l] :
            l \in {<<>>, <<[username |-> "alice", email |-> "a@x.com"]>>}}

\* a repository whose collection failed gets no entry
StoreCommitters_DropFailed(res, key, o) ==
  IF o.raised THEN res ELSE DictPut(res, key, o.list)
(* lines 137-143 (and 308-314): the committer list, or [] after a failure *)
StoreCommitters(res, key, o) ==
  DictPut(res, key, IF o.raised THEN <<>> ELSE o.list)

(* lines 107 and 125-128: fetch_org_repos returns, the for loop starts *)
ListingReturn ==
  /\ scan_pc = "listing"
  /\ ~has_more
  /\ list_outcome' = "returned"
  /\ repo_queue' = org_repos
  /\ scan_pc' = "org_repos"
  /\ UNCHANGED <<rowsLeft, org, page, org_repos, has_more, org_requests, batches,
                 results, collected, collect_outcome, repo_key,
                 fetchVars, coverVars, ghasVars>>

(* lines 128-143: one repository of the listing *)
RepoStep ==
  /\ scan_pc = "org_repos"
  /\ repo_queue # <<>>
  /\ repo_queue' = Tail(repo_queue)
  /\ \E repo \in RepoRecords :
       IF Skipped(repo)
       THEN /\ collect_outcome' = "skipped"
            /\ UNCHANGED <<results, collected, repo_key>>
       ELSE /\ repo_key' = RepoKey(org, repo.name)
            /\ collected' = collected \cup {repo_key'}
            /\ \E o \in CollectOutcomes :
                 /\ results' = StoreCommitters(results, repo_key', o)
                 /\ collect_outcome' = IF o.raised THEN "raised" ELSE "returned"
  /\ UNCHANGED <<scan_pc, rowsLeft, org, page, org_repos, has_more, org_requests, batches,
                 list_outcome, fetchVars, coverVars, ghasVars>>

(* line 128: the listing is exhausted, back to the rows *)
OrgDone ==
  /\ scan_pc = "org_repos"
  /\ repo_queue = <<>>
  /\ scan_pc' = "org_rows"
  /\ UNCHANGED <<rowsLeft, org, page, org_repos, has_more, org_requests, batches,
                 list_outcome, repo_queue, results, collected, collect_outcome, repo_key,
                 fetchVars, coverVars, ghasVars>>

(* line 148 *)
ScanReturn ==
  /\ scan_pc = "org_rows"
  /\ rowsLeft = 0
  /\ scan_pc' = "done"
  /\ UNCHANGED <<rowsLeft, org, page, org_repos, has_more, org_requests, batches,
                 list_outcome, repo_queue, results, collected, collect_outcome, repo_key,
                 fetchVars, coverVars, ghasVars>>

(* ======================== get_ghas_data (40-81) ======================= *)
Enterprises == {None, "", "acme"}

\* only None counts as no enterprise
EnterpriseMissing_NoneOnly(e) == e = None
(* line 42: not self.enterprise *)
EnterpriseMissing(e) == ~Truthy(e)

(* The aggregate counters of a billing page; <<>> is a key that is missing *)
GhasCounters ==
  {[total_advanced_security_committers |-> <<>>, total_count |-> <<>>,
    maximum_advanced_security_committers |-> <<>>,
    purchased_advanced_security_committers |-> <<>>],
   [total_advanced_security_committers |-> <<1>>, total_count |-> <<1>>,
    maximum_advanced_security_committers |-> <<1>>,
    purchased_advanced_security_committers |-> <<3>>],
   [total_advanced_security_committers |-> <<2>>, total_count |-> <<1>>,
    maximum_advanced_security_committers |-> <<3>>,
    purchased_advanced_security_committers |-> <<3>>]}

(* Repository records of a billing page *)
GhasPageRecords ==
  {r \in BillingRecords :
     Len(r.advanced_security_committers_breakdown) = 1
       /\ r.advanced_security_committers_breakdown[1].user_login = "alice"}

(* The 'repositories' key of a billing page: missing, null, or a list *)
GhasRepositories ==
  {[shape |-> "missing", list |-> <<>>], [shape |-> "null", list |-> <<>>]}
    \cup {[shape |-> "list", list |-> l] : l \in SeqsUpTo(GhasPageRecords, MaxPageRepos)}

\* the body of a response that has none to parse
NoGhasBody ==
  [counters |-> [total_advanced_security_committers |-> <<>>, total_count |-> <<>>,
                 maximum_advanced_security_committers |-> <<>>,
                 purchased_advanced_security_committers |-> <<>>],
   repositories |-> [shape |-> "missing", list |-> <<>>]]

GhasBodies ==
  {[counters |-> c, repositories |-> r] : c \in GhasCounters, r \in GhasRepositories}

(* The Link header: <<>> when the response has none, else <<rels>> with    *)
(* rels the relations it lists                                             *)
LinksWithoutNext == {<<>>, <<{"prev", "first"}>>}
Links == LinksWithoutNext \cup {<<{"next", "last"}>>}
\* any Link header counts as a next page
HasNext_AnyLink(l) == l # <<>>
(* line 66, negated: 'Link' in headers and 'rel="next"' in headers['Link'] *)
HasNext(l) == l # <<>> /\ "next" \in l[1]

(* The responses to the request for page p: the enterprise has at most     *)
(* MaxGhasPages billing pages                                              *)
GhasResponses(p) ==
  {[status |-> HttpError, body |-> NoGhasBody, link |-> <<>>]}
    \cup {[status |-> HttpOk, body |-> b, link |-> l] :
            b \in GhasBodies,
            l \in IF p < MaxGhasPages THEN Links ELSE LinksWithoutNext}

BillingIdle ==
  /\ ghas_pc = "idle"
  /\ ghas_page = 1
  /\ all_repos = <<>>
  /\ data = <<>>
  /\ ghas_requests = <<>>
  /\ ghas_pages = <<>>
  /\ link = <<>>
  /\ ghas_outcome = "none"
  /\ ghas_result = <<>>

NoBilling == BillingIdle /\ enterprise = None

(* dict.get(key, 0) on the counters *)
CounterOr0(v) == IF v = <<>> THEN 0 ELSE v[1]

(* lines 40-47: the call; without an enterprise it raises ValueError *)
GetGhasData ==
  /\ ghas_pc = "idle"
  /\ IF EnterpriseMissing(enterprise)
     THEN /\ ghas_outcome' = "value_error"
          /\ ghas_pc' = "done"
     ELSE /\ ghas_outcome' = "none"
          /\ ghas_pc' = "loop"
  /\ all_repos' = <<>>
  /\ ghas_page' = 1
  /\ UNCHANGED <<enterprise, data, ghas_requests, ghas_pages, link, ghas_result,
                 fetchVars, coverVars, scanVars>>

\* the body of the first page is kept
ParsedData_KeepFirst(old, body) == IF old = <<>> THEN <<body>> ELSE old
(* line 58: data = response.json() *)
ParsedData(old, body) == <<body>>

(* lines 49-72: one pass of the loop; raise_for_status and a null          *)
(* 'repositories' (extend(None)) raise                                     *)
FetchGhasPage ==
  /\ ghas_pc = "loop"
  /\ ghas_requests' = Append(ghas_requests, ghas_page)
  /\ \E r \in GhasResponses(ghas_page) :
       /\ link' = r.link
       /\ IF r.status # HttpOk
          THEN /\ ghas_outcome' = "raised"
               /\ ghas_pc' = "done"
               /\ UNCHANGED <<data, all_repos, ghas_pages, ghas_page>>
          ELSE /\ data' = ParsedData(data, r.body)
               /\ ghas_pages' = Append(ghas_pages, r.body)
               /\ IF r.body.repositories.shape = "null"
                  THEN /\ ghas_outcome' = "raised"
                       /\ ghas_pc' = "done"
                       /\ UNCHANGED <<all_repos, ghas_page>>
                  ELSE /\ all_repos' = all_repos \o r.body.repositories.list
                       /\ ghas_pc' = IF HasNext(r.link) THEN "loop" ELSE "return"
                       /\ ghas_page' = IF HasNext(r.link) THEN ghas_page + 1 ELSE ghas_page
                       /\ UNCHANGED ghas_outcome
  /\ UNCHANGED <<enterprise, ghas_result, fetchVars, coverVars, scanVars>>

(* lines 74-81 *)
GhasReturn ==
  /\ ghas_pc = "return"
  /\ ghas_result' =
       <<[total_advanced_security_committers |->
            CounterOr0(data[1].counters.total_advanced_security_committers),
          total_count |-> CounterOr0(data[1].counters.total_count),
          maximum_advanced_security_committers |->
            CounterOr0(data[1].counters.maximum_advanced_security_committers),
          purchased_advanced_security_committers |->
            CounterOr0(data[1].counters.purchased_advanced_security_committers),
          repositories |-> all_repos]>>
  /\ ghas_outcome' = "returned"
  /\ ghas_pc' = "done"
  /\ UNCHANGED <<enterprise, ghas_page, all_repos, data, ghas_requests, ghas_pages, link,
                 fetchVars, coverVars, scanVars>>


(* ==================== process_repositories (294-316) ================== *)
RepoNames == {"r1", "r2"}

(* lines 294-304: process_repositories opens the CSV file *)
ProcessRepositories ==
  /\ scan_pc = "idle"
  /\ \E n \in 0..MaxRows : rowsLeft' = n
  /\ results' = <<>>
  /\ scan_pc' = "repo_rows"
  /\ UNCHANGED <<org, page, org_repos, has_more, org_requests, batches, list_outcome,
                 repo_queue, collected, collect_outcome, repo_key,
                 fetchVars, coverVars, ghasVars>>

(* lines 306-314: one row *)
RepoRow ==
  /\ scan_pc = "repo_rows"
  /\ rowsLeft > 0
  /\ rowsLeft' = rowsLeft - 1
  /\ \E owner \in OrgNames, repo \in RepoNames, o \in CollectOutcomes :
       /\ repo_key' = RepoKey(owner, repo)
       /\ collected' = collected \cup {repo_key'}
       /\ results' = StoreCommitters(results, repo_key', o)
       /\ collect_outcome' = IF o.raised THEN "raised" ELSE "returned"
  /\ UNCHANGED <<scan_pc, org, page, org_repos, has_more, org_requests, batches,
                 list_outcome, repo_queue, fetchVars, coverVars, ghasVars>>

(* line 316 *)
ReposReturn ==
  /\ scan_pc = "repo_rows"
  /\ rowsLeft = 0
  /\ scan_pc' = "done"
  /\ UNCHANGED <<rowsLeft, org, page, org_repos, has_more, org_requests, batches,
                 list_outcome, repo_queue, results, collected, collect_outcome, repo_key,
                 fetchVars, coverVars, ghasVars>>

(* ---------------- analyze_committer_coverage: runs ---------------- *)
NoAnalysis ==
  /\ ghas_data = <<>>
  /\ repo_data = <<>>
  /\ hash_order = CHOOSE o \in HashOrders : TRUE
  /\ coverage = <<>>
  /\ previous = <<>>

InitCoverage ==
  /\ InitFetch
  /\ NoScan
  /\ NoBilling
  /\ ghas_data \in SeqsUpTo(BillingRecords, MaxBilling)
  /\ repo_data \in SeqsUpTo(CommitterLists, MaxRepos)
  /\ hash_order \in HashOrders
  /\ coverage = <<>>
  /\ previous = <<>>

(* line 520: the report's call of analyze_committer_coverage *)
Analyze ==
  /\ coverage' = <<AnalyzeCommitterCoverage(ghas_data, repo_data, hash_order)>>
  /\ previous' = coverage
  /\ UNCHANGED <<ghas_data, repo_data, hash_order, fetchVars, restVars>>

(* The program is run again on the same data: a new process, whose string  *)
(* hashes are seeded anew                                                  *)
Rerun ==
  /\ coverage # <<>>
  /\ hash_order' \in HashOrders \ {hash_order}
  /\ UNCHANGED <<ghas_data, repo_data, coverage, previous, fetchVars, restVars>>

NextCoverage ==
  \/ Analyze
  \/ Rerun

SpecCoverage == InitCoverage /\ [][NextCoverage]_vars

(* A run that collects committers and has not analysed anything yet *)
InitTraversal == InitFetch /\ NoAnalysis /\ NoScan /\ NoBilling

(* Traversals whose server sends every combination of rate limit headers  *)
(* and whose requests take time, over two commit authors                   *)
RateAuthors ==
  {[user |-> TRUE, login |-> "alice", name |-> "Al", email |-> "a@x.com"],
   [user |-> FALSE, login |-> None, name |-> "", email |-> ""]}

NextFetch ==
  \/ FetchStart
  \/ GuardCheck
  \/ SendFirst(RateEnv)
  \/ ReadHeaders
  \/ SendSecond(RateEnv)
  \/ ProcessResponse
  \/ ProcessCommit(RateAuthors)
  \/ EndPage
  \/ FetchReturn

SpecFetch == InitTraversal /\ [][NextFetch]_vars

(* Traversals over every commit author, whose server sends no rate limit   *)
(* headers and answers at once                                             *)
NextAuthors ==
  \/ FetchStart
  \/ GuardCheck
  \/ SendFirst(QuietEnv)
  \/ ReadHeaders
  \/ SendSecond(QuietEnv)
  \/ ProcessResponse
  \/ ProcessCommit(AllAuthors)
  \/ EndPage
  \/ FetchReturn

SpecAuthors == InitTraversal /\ [][NextAuthors]_vars

(* Scans of the organizations of a CSV file *)
NextOrgs ==
  \/ ProcessOrganizations
  \/ NextOrg
  \/ FetchOrgPage
  \/ ListingReturn
  \/ RepoStep
  \/ OrgDone
  \/ ScanReturn

SpecOrgs == InitTraversal /\ [][NextOrgs]_vars

(* Collections of the repositories of a CSV file *)
NextRepos ==
  \/ ProcessRepositories
  \/ RepoRow
  \/ ReposReturn

SpecRepos == InitTraversal /\ [][NextRepos]_vars

(* ------------------ main: collect, then reconcile --------------------- *)
(* Commit authors of which several resolve to one key *)
MergeAuthors ==
  {[user |-> TRUE, login |-> "alice", name |-> "Al", email |-> "a@x.com"],
   [user |-> TRUE, login |-> "alice", name |-> "", email |-> None],
   [user |-> FALSE, login |-> None, name |-> "", email |-> "a@x.com"],
   [user |-> FALSE, login |-> None, name |-> "", email |-> ""]}

(* lines 485-491: what the call gave is stored as the repository's         *)
(* committers, [] after a failure; repo_data holds the values in the order *)
(* of the repositories                                                     *)
StoreResult ==
  /\ pc = "done"
  /\ coverage = <<>>
  /\ repo_data' = Append(repo_data, IF outcome = "raised" THEN <<>> ELSE result)
  /\ pc' = "idle"
  /\ UNCHANGED <<calls, last_report, now, committers, cursor, has_next_page,
                 remaining_rate_limit, rate_limit_reset, response, nodesLeft, commit,
                 requests, outcome, result, reset_instant, slept,
                 ghas_data, hash_order, coverage, previous, restVars>>

(* line 520: the report reconciles once the repositories are collected *)
Report ==
  /\ pc = "idle"
  /\ repo_data # <<>>
  /\ coverage = <<>>
  /\ Analyze

NextReport ==
  \/ FetchStart
  \/ GuardCheck
  \/ SendFirst(QuietEnv)
  \/ ReadHeaders
  \/ SendSecond(QuietEnv)
  \/ ProcessResponse
  \/ ProcessCommit(MergeAuthors)
  \/ EndPage
  \/ FetchReturn
  \/ StoreResult
  \/ Report

SpecReport == InitTraversal /\ [][NextReport]_vars

(* A run that fetches the billing data of some enterprise, or of none *)
InitBilling ==
  /\ InitFetch
  /\ NoAnalysis
  /\ NoScan
  /\ BillingIdle
  /\ enterprise \in Enterprises

NextGhas ==
  \/ GetGhasData
  \/ FetchGhasPage
  \/ GhasReturn

SpecGhas == InitBilling /\ [][NextGhas]_vars


(* ===================== author normalisation (C1-C3) ==================== *)
HasLogin(a) == a.user /\ Truthy(a.login)

(* C1: when a commit author with a non-empty linked login is visited, the  *)
(* committer set gains exactly the key equal to that login (if it was not  *)
(* there already) and that key holds the author's record, whatever the     *)
(* author's e-mail and freeform name are.                                  *)
C1_LoginIsKey ==
  [][\A a \in AllAuthors :
       (ProcessCommit({a}) /\ HasLogin(a)) =>
         /\ DictKeys(committers') = DictKeys(committers) \cup {a.login}
         /\ DictGet(committers', a.login) = [username |-> a.login, email |-> a.email]
    ]_fetchVars

C1_Witness ==
  /\ pc = "nodes"
  /\ HasLogin(commit)
  /\ Truthy(commit.name) /\ Truthy(commit.email)
  /\ commit.name # commit.login /\ commit.email # commit.login
  /\ DictHas(committers, commit.login)

(* C2: when a commit author with no linked login and a non-empty e-mail is *)
(* visited, the key under which the author is stored is the e-mail, for    *)
(* every freeform name.                                                    *)
C2_EmailIsKey ==
  [][\A a \in AllAuthors :
       (ProcessCommit({a}) /\ ~HasLogin(a) /\ Truthy(a.email)) =>
         /\ DictKeys(committers') = DictKeys(committers) \cup {a.email}
         /\ DictGet(committers', a.email).email = a.email
    ]_fetchVars

(* C3: visiting a commit author with neither a linked login nor an e-mail  *)
(* adds no entry to the committer set, for every freeform name.            *)
C3_AnonymousSkipped ==
  [][\A a \in AllAuthors :
       (ProcessCommit({a}) /\ ~HasLogin(a) /\ ~Truthy(a.email)) =>
         committers' = committers
    ]_fetchVars

(* ========================= rate limit (C7-C9) ========================== *)
(* C7: whenever the guard check finds the last known remaining count below *)
(* 1 and a reset time known, the request that follows is not sent before   *)
(* the reset instant plus one second.                                      *)
C7_WaitsUntilResetPlusOne ==
  [][(SendFirst(RateEnv) /\ GuardApplies) => now >= reset_instant[1] + SleepBuffer]_fetchVars

(* A response that reports the limit used up until an instant after t *)
ReportsDepleted(r, t) ==
  /\ RemH \in DOMAIN r.headers /\ r.headers[RemH] < 1
  /\ ResetH \in DOMAIN r.headers /\ r.headers[ResetH] > t

(* C8: no GraphQL request is sent while the response last received reports *)
(* remaining below 1 with a reset time still ahead, unless the guard has   *)
(* slept between that response and the request.                            *)
C8_GuardAroundEveryRequest ==
  [][((SendFirst(RateEnv) \/ SendSecond(RateEnv)) /\ ReportsDepleted(response, now)) => slept]_fetchVars

(* C9: within a call the stored remaining count changes only when a        *)
(* response carrying x-ratelimit-remaining is read, and then to that       *)
(* header's value; the stored reset time changes only when a response      *)
(* carrying x-ratelimit-reset is read, and then to that header's time. A   *)
(* missing header leaves its value as it was: it neither sets remaining to *)
(* 0 nor clears the reset time.                                            *)
C9_MissingHeaderKeepsState ==
  [][calls' = calls =>
       /\ (RemH \notin DOMAIN response.headers \/ pc # "headers")
             => remaining_rate_limit' = remaining_rate_limit
       /\ (ResetH \notin DOMAIN response.headers \/ pc # "headers")
             => rate_limit_reset' = rate_limit_reset
       /\ (pc = "headers" /\ RemH \in DOMAIN response.headers)
             => remaining_rate_limit' = response.headers[RemH]
       /\ (pc = "headers" /\ ResetH \in DOMAIN response.headers)
             => rate_limit_reset' = <<LocalTime(response.headers[ResetH])>>
    ]_fetchVars

(* a response without rate limit headers was read while a depleted count   *)
(* and a reset time from an earlier page were stored, and both are kept    *)
C9_Witness ==
  /\ pc = "send2"
  /\ response.kind = "first"
  /\ response.headers = NoHeaders
  /\ remaining_rate_limit = 0
  /\ rate_limit_reset # <<>>

(* ======================== empty repository (C10) ======================= *)
(* C10: a call that ends on a well-formed response whose repository,       *)
(* defaultBranchRef, target or history is missing, null or empty returns   *)
(* an empty list and raises nothing.                                       *)
C10_NoHistoryIsEmptyResult ==
  (/\ pc = "done"
   /\ response.kind = "second"
   /\ response.status = HttpOk
   /\ ~response.body.errors
   /\ response.body.shape \in (NullShapes \cup MissingShapes) \ {"data_null", "data_missing"})
    => (outcome = "returned" /\ result = <<>>)

(* ========================= reconciliation (C4-C6) ====================== *)
Range(f) == {f[i] : i \in DOMAIN f}
(* keys(C): the keys of the committer records given *)
InputCommitterKeys ==
  {k \in {Or(c.username, c.email) : c \in UNION {Range(repo_data[i]) : i \in DOMAIN repo_data}} :
     Truthy(k)}
(* keys(E): the non-empty logins of the breakdowns of the billing          *)
(* repositories whose committer count is above zero                        *)
InputEntitledLogins ==
  {l \in {e.user_login :
            e \in UNION {Range(ghas_data[i].advanced_security_committers_breakdown) :
                           i \in {k \in DOMAIN ghas_data :
                                    ghas_data[k].advanced_security_committers > 0}}} :
     Truthy(l)}

(* C4: the keys of new_committers are exactly keys(C) minus keys(E), each  *)
(* once: no uncovered key is an entitled login and every committer key is  *)
(* uncovered or an entitled login.                                         *)
C4_UncoveredIsDifference ==
  coverage # <<>> =>
    LET new == coverage[1].new_committers
        newKeys == {Or(new[i].username, new[i].email) : i \in DOMAIN new}
    IN /\ newKeys = InputCommitterKeys \ InputEntitledLogins
       /\ Len(new) = Cardinality(newKeys)
       /\ newKeys \cap InputEntitledLogins = {}
       /\ InputCommitterKeys \subseteq newKeys \cup InputEntitledLogins

C4_Witness ==
  /\ coverage # <<>>
  /\ coverage[1].new_committers # <<>>
  /\ InputCommitterKeys \cap InputEntitledLogins # {}
  /\ InputEntitledLogins \ InputCommitterKeys # {}

(* C5: two calls of analyze_committer_coverage with the same inputs return *)
(* the same sequences in the same order (the inputs never change here).    *)
C5_SameInputsSameOrder ==
  (coverage # <<>> /\ previous # <<>>) => coverage = previous

(* C6: total_ghas_committers is the number of distinct entitled logins and *)
(* ghas_committers holds each login at most once.                          *)
C6_EntitledLoginsUnique ==
  coverage # <<>> =>
    LET g == coverage[1].ghas_committers
    IN /\ coverage[1].total_ghas_committers = Cardinality(InputEntitledLogins)
       /\ \A i, j \in DOMAIN g : i # j => g[i].username # g[j].username

(* ================== page traversals (C11-C14) ========================= *)
RECURSIVE Flatten(_)
Flatten(ss) == IF ss = <<>> THEN <<>> ELSE Head(ss) \o Flatten(Tail(ss))

NonEmptyBatches == {i \in DOMAIN batches : batches[i] # <<>>}

(* C11: fetch_org_repos requests the pages 1, 2, 3, ... in order, each     *)
(* once; no request follows the first page that came back empty; and when  *)
(* it returns after n pages that were not empty it has sent n + 1 requests *)
(* and returns those n batches concatenated in page order.                 *)
C11_PagesUntilFirstEmpty ==
  /\ \A i \in DOMAIN org_requests : org_requests[i] = i
  /\ \A i \in DOMAIN batches :
       batches[i] = <<>> => (i = Len(batches) /\ Len(org_requests) = i)
  /\ list_outcome = "returned" =>
       /\ Len(org_requests) = Cardinality(NonEmptyBatches) + 1
       /\ NonEmptyBatches = 1..(Len(batches) - 1)
       /\ org_repos = Flatten(batches)

C11_Witness ==
  /\ list_outcome = "returned"
  /\ Cardinality(NonEmptyBatches) = 2
  /\ Len(org_requests) = 3
  /\ Len(org_repos) > Len(batches[2])

(* C12: a traversal of fetch_repo_committers asks for a further page only  *)
(* after a page that reported hasNextPage = true, goes on after every such *)
(* page, and returns only after a page whose hasNextPage was false or      *)
(* missing.                                                                *)
C12_EndsAtHasNextPageFalse ==
  [][/\ (pc = "send1" /\ requests # <<>> /\ requests' # requests)
          => response.body.hasNextPage = "true"
     /\ (pc = "nodes" /\ pc' = "loop")
          => (has_next_page' <=> response.body.hasNextPage = "true")
     /\ (outcome = "none" /\ outcome' = "returned")
          => response.body.hasNextPage # "true"]_vars

C12_Witness ==
  /\ outcome = "returned"
  /\ Len(requests) = 4
  /\ response.body.shape = HistoryShape
  /\ response.body.hasNextPage = "false"

SaysNext(l) == l \notin LinksWithoutNext
PageRepositories == [i \in DOMAIN ghas_pages |-> ghas_pages[i].repositories.list]

(* C13: get_ghas_data requests the pages 1, 2, ... in order; after a       *)
(* response whose Link header has a next relation it goes on to the next   *)
(* page number, a later page is requested only after such a response, it   *)
(* returns at the first response without one, and the repositories it      *)
(* returns are those of the pages fetched, concatenated in page order.     *)
C13_FollowsNextLinks ==
  [][/\ \A i \in DOMAIN ghas_requests' : ghas_requests'[i] = i
     /\ (ghas_requests # <<>> /\ ghas_requests' # ghas_requests) => SaysNext(link)
     /\ (ghas_pc = "loop" /\ ghas_pc' = "loop") =>
           (SaysNext(link') /\ ghas_page' = ghas_page + 1)
     /\ (ghas_pc = "loop" /\ ghas_pc' = "return") => ~SaysNext(link')
     /\ ghas_outcome' = "returned" =>
           /\ ~SaysNext(link')
           /\ Len(ghas_requests') = Len(ghas_pages')
           /\ ghas_result'[1].repositories = Flatten(PageRepositories')]_vars

C13_Witness ==
  /\ ghas_outcome = "returned"
  /\ Len(ghas_requests) = 2
  /\ Len(ghas_result[1].repositories) = 2
  /\ ghas_result[1].repositories[1] # ghas_result[1].repositories[2]

Failure(r) == r.kind # "none" /\ (r.status # HttpOk \/ r.body.errors)

(* C14: once a response of a commit history traversal has a non-success    *)
(* status or an errors payload, no further request of that traversal is    *)
(* sent, and the traversal does not return a result.                       *)
C14_FailureEndsTraversal ==
  [][Failure(response) => (requests' = requests /\ outcome' # "returned")]_vars

(* ================== failures during a scan (C15-C17) ================== *)
(* A step of the scan in which the collection of a repository failed *)
CollectionFailed(at) ==
  scan_pc = at /\ collect_outcome' = "raised" /\ <<repo_queue, rowsLeft>>' # <<repo_queue, rowsLeft>>

(* The step stored [] under one key collected for and changed no other     *)
(* entry                                                                   *)
StoredEmpty ==
  \E k \in collected' :
    /\ DictHas(results', k)
    /\ DictGet(results', k) = <<>>
    /\ DictKeys(results') = DictKeys(results) \cup {k}
    /\ \A k2 \in DictKeys(results) \ {k} : DictGet(results', k2) = DictGet(results, k2)

(* C15: when the collection of a repository fails during an organization   *)
(* scan, that repository is stored with an empty list, every other entry   *)
(* of the results stays as it was, and the scan goes on with the remaining *)
(* repositories of the organization and the remaining rows; every          *)
(* repository a collection was started for has an entry.                   *)
C15_RepoFailureIsEmptyAndScanGoesOn ==
  [][/\ CollectionFailed("org_repos") =>
          /\ StoredEmpty
          /\ repo_queue' = Tail(repo_queue)
          /\ rowsLeft' = rowsLeft
          /\ scan_pc' = "org_repos"
     /\ collected' \subseteq DictKeys(results')]_vars

C15_Witness ==
  /\ scan_pc = "org_repos"
  /\ collect_outcome = "raised"
  /\ repo_queue # <<>>
  /\ rowsLeft > 0
  /\ Len(results) > 1
  /\ \E i \in DOMAIN results : results[i][2] # <<>>

(* C16: on an analyzer whose enterprise is None or empty, get_ghas_data     *)
(* ends with the ValueError of line 43 and sends no request.               *)
C16_NoEnterpriseNoRequest ==
  enterprise \in {None, ""} =>
    /\ ghas_requests = <<>>
    /\ ghas_pc # "idle" => (ghas_pc = "done" /\ ghas_outcome = "value_error")

C16_Witness ==
  /\ enterprise = ""
  /\ ghas_outcome = "value_error"
  /\ ghas_requests = <<>>

(* C17, as stated: when the collection of a repository of a repositories   *)
(* file fails, process_repositories stores nothing for it and does not go  *)
(* on to the next row: the failure reaches its caller.                     *)
C17_RepoFailureSurfaced ==
  [][CollectionFailed("repo_rows") => (results' = results /\ scan_pc' # "repo_rows")]_vars

(* C17, amended: when the collection of a repository of a repositories     *)
(* file fails, process_repositories stores an empty list under that        *)
(* repository's key, leaves every other entry as it was, and goes on with  *)
(* the next row; every row read has an entry.                              *)
C17_RepoFailureIsEmptyResult ==
  [][/\ CollectionFailed("repo_rows") =>
          /\ StoredEmpty
          /\ rowsLeft' = rowsLeft - 1
          /\ scan_pc' = "repo_rows"
     /\ collected' \subseteq DictKeys(results')]_vars

C17_Witness ==
  /\ scan_pc = "repo_rows"
  /\ collect_outcome = "raised"
  /\ rowsLeft = 0
  /\ Len(results) = 2
  /\ results[1][2] # <<>>
  /\ results[2][2] = <<>>

(* ======================= entitled logins (C18) ======================== *)
(* C18: the logins of ghas_committers are exactly the non-empty logins     *)
(* found in the breakdown of a billing repository whose committer count is *)
(* above zero, whatever the collected committers are.                      *)
C18_EntitledFromBillingAlone ==
  coverage # <<>> =>
    {c.username : c \in Range(coverage[1].ghas_committers)} = InputEntitledLogins

C18_Witness ==
  /\ coverage # <<>>
  /\ \E c \in Range(coverage[1].ghas_committers) : c.username \notin InputCommitterKeys
  /\ \E c \in Range(coverage[1].ghas_committers) : c.username \in InputCommitterKeys
  /\ \E i \in DOMAIN ghas_data :
       /\ ghas_data[i].advanced_security_committers = 0
       /\ ghas_data[i].advanced_security_committers_breakdown # <<>>

(* ==================== rate limit state (C19-C20) ====================== *)
(* C19: when the last response of the call before reported a used-up limit *)
(* and its reset instant, the first request of a call is not sent before   *)
(* that instant.                                                           *)
C19_StateSurvivesBetweenCalls ==
  [][(pc = "send1" /\ requests = <<>> /\ requests' # requests /\ last_report # <<>>)
       => now >= last_report[1]]_vars

(* C20: once a response has been handled, the stored remaining count and   *)
(* reset time are those of its rate limit headers, for each header it      *)
(* carries.                                                                *)
C20_StateIsLastResponse ==
  (response.kind # "none" /\ pc \in {"send2", "nodes", "loop", "send1", "done"}) =>
    /\ RemH \in DOMAIN response.headers =>
         remaining_rate_limit = response.headers[RemH]
    /\ ResetH \in DOMAIN response.headers =>
         rate_limit_reset = ResetFromHeader(response.headers[ResetH])

(* ===================== billing counters (C21) ========================= *)
\* the value of a counter of a page, 0 when the page has no such key
CounterOf(v) == IF v = <<>> THEN 0 ELSE v[1]

(* C21: the total, maximum and purchased counters (and total_count) that   *)
(* get_ghas_data returns are those of the last page it fetched, for every  *)
(* number of pages.                                                        *)
C21_CountersOfLastPage ==
  [][ghas_outcome' = "returned" =>
       LET last == ghas_pages'[Len(ghas_pages')].counters
           r == ghas_result'[1]
       IN /\ r.total_advanced_security_committers
               = CounterOf(last.total_advanced_security_committers)
          /\ r.total_count = CounterOf(last.total_count)
          /\ r.maximum_advanced_security_committers
               = CounterOf(last.maximum_advanced_security_committers)
          /\ r.purchased_advanced_security_committers
               = CounterOf(last.purchased_advanced_security_committers)]_vars

C21_Witness ==
  /\ ghas_outcome = "returned"
  /\ Len(ghas_pages) = 2
  /\ ghas_pages[1].counters.total_advanced_security_committers = <<1>>
  /\ ghas_pages[2].counters.total_advanced_security_committers = <<2>>
  /\ ghas_result[1].total_advanced_security_committers = 2
  /\ ghas_result[1].maximum_advanced_security_committers = 3

(* ==================== scanned repositories (C22) ====================== *)
Flagged(r) == r.archived \/ r.fork
RepoVisited == scan_pc = "org_repos" /\ repo_queue' # repo_queue

(* C22: in an organization scan, visiting a listed repository flagged      *)
(* archived or fork changes neither the results nor the set of             *)
(* repositories collected for; visiting any other stores an entry under    *)
(* "<org>/<repo>"; the results hold each key once, hold exactly the keys   *)
(* collected for, and none of them is the key of a flagged repository.     *)
C22_OneEntryPerSurvivingRepo ==
  [][/\ (RepoVisited /\ collect_outcome' = "skipped")
          => (results' = results /\ collected' = collected)
     /\ (RepoVisited /\ collect_outcome' # "skipped")
          => /\ \E r \in RepoRecords : ~Flagged(r) /\ repo_key' = org \o "/" \o r.name
             /\ DictHas(results', repo_key')
             /\ repo_key' \in collected'
     /\ \A i, j \in DOMAIN results' : i # j => results'[i][1] # results'[j][1]
     /\ DictKeys(results') = collected'
     /\ \A o \in OrgNames, r \in RepoRecords :
          Flagged(r) => (o \o "/" \o r.name) \notin (collected' \cup DictKeys(results'))]_vars

C22_Witness ==
  /\ scan_pc = "done"
  /\ list_outcome = "returned"
  /\ collect_outcome = "skipped"
  /\ Len(org_repos) = 3
  /\ Len(results) = 2

(* ================= accumulated committers (C23-C25) =================== *)
(* C23: within a call the keys accumulated never shrink, and when the call *)
(* returns its result holds one record for each key accumulated over the   *)
(* pages of the traversal and no other.                                    *)
C23_ResultIsAllKeysSeen ==
  [][/\ calls' = calls => DictKeys(committers) \subseteq DictKeys(committers')
     /\ outcome' = "returned" =>
          /\ {CommitterKey(c) : c \in Range(result')} = DictKeys(committers')
          /\ Len(result') = Cardinality(DictKeys(committers'))]_vars

(* C24: in one traversal the first request carries the null cursor and no  *)
(* cursor value is sent twice.                                             *)
C24_EachPageRequestedOnce ==
  /\ requests # <<>> => requests[1] = <<>>
  /\ \A i, j \in DOMAIN requests : i # j => requests[i] # requests[j]


\* the record of key k that comes last in the list
LastWithKey(flat, k) ==
  flat[CHOOSE i \in DOMAIN flat :
         /\ CommitterKey(flat[i]) = k
         /\ \A j \in DOMAIN flat : j > i => CommitterKey(flat[j]) # k]

NonEmptyIdentity(c) ==
  /\ DOMAIN c = {"username", "email"}
  /\ Truthy(c.username) \/ Truthy(c.email)

(* C25: when a resolved key occurs several times, the stored record is the *)
(* one seen last: a commit whose key is not empty leaves its own record     *)
(* under that key and the records of the other keys as they were, the call  *)
(* returns the stored records, and the merge of the repositories keeps for  *)
(* each key the last record of that key in repository order; every stored   *)
(* record has a username and an email field, one of them non-empty.         *)
C25_LastRecordWins ==
  [][/\ (pc = "nodes" /\ nodesLeft' < nodesLeft) =>
          LET key == ResolveKey(commit')
          IN /\ Truthy(key) =>
                  /\ DictHas(committers', key)
                  /\ DictGet(committers', key) = CommitterRecord(commit')
             /\ ~Truthy(key) => committers' = committers
             /\ \A k \in DictKeys(committers) \ {key} :
                  DictHas(committers', k) /\ DictGet(committers', k) = DictGet(committers, k)
     /\ \A k \in DictKeys(committers') :
          NonEmptyIdentity(DictGet(committers', k)) /\ CommitterKey(DictGet(committers', k)) = k
     /\ \A i \in DOMAIN result' :
          /\ DictHas(committers', CommitterKey(result'[i]))
          /\ DictGet(committers', CommitterKey(result'[i])) = result'[i]
     /\ coverage' # <<>> =>
          LET flat == Flatten(repo_data')
              new == coverage'[1].new_committers
          IN /\ ghas_data' = <<>> =>
                  {CommitterKey(flat[i]) : i \in DOMAIN flat} = {CommitterKey(new[i]) : i \in DOMAIN new}
             /\ \A i \in DOMAIN new :
                  /\ NonEmptyIdentity(new[i])
                  /\ new[i] = LastWithKey(flat, CommitterKey(new[i]))]_vars

\* two repositories hold different records of one key, and one traversal
\* met that key twice: the report holds the later record
C25_Witness ==
  /\ coverage # <<>>
  /\ Len(repo_data) = 2
  /\ \E i \in DOMAIN repo_data[1], j \in DOMAIN repo_data[2] :
       /\ CommitterKey(repo_data[1][i]) = CommitterKey(repo_data[2][j])
       /\ repo_data[1][i] # repo_data[2][j]
       /\ \E n \in DOMAIN coverage[1].new_committers :
            coverage[1].new_committers[n] = repo_data[2][j]
  /\ Len(repo_data[2]) = 1
  /\ nodesLeft = 0
  /\ commit # NoCommit
  /\ CommitterRecord(commit) \in Range(repo_data[2])

====
